---- MODULE Spec2Model ----
(***************************************************************************)
(* A model of neuralnet-rs: the dense Layer (src/layer.rs), the            *)
(* ActivationFunction (src/activation_function.rs), the LossTargetData     *)
(* variants and the LossFunction dispatcher (src/loss_function/mod.rs) and *)
(* CrossEntropy (src/loss_function/cross_entropy.rs).                      *)
(*                                                                         *)
(* Numbers.  The affine part of a Layer is modelled on integers, which     *)
(* f64 adds and multiplies exactly at the magnitudes used here.  exp and   *)
(* the division of softmax are modelled on a small binary floating point   *)
(* format (15 bit mantissa, f64's exponent range, NaN and +inf).           *)
(* Predictions of the loss are fixed point numbers in units of 1e-7 (the   *)
(* clip bounds are then 1 and 10^7 - 1) or NaN, and a loss is a fixed      *)
(* point number in units of 1e-3, +inf or NaN.                             *)
(***************************************************************************)
EXTENDS Integers, Sequences, FiniteSets, TLC

VARIABLES
    neurons,     \* Layer: const generic NEURONS
    fan_in,      \* Layer: const generic FAN_IN
    weights,     \* Layer.weights
    biases,      \* Layer.biases
    activation,  \* Layer.activation / ActivationFunction.activation
    target,      \* the LossTargetData value in hand
    op,          \* the operation that ran last
    arg,         \* its argument
    result,      \* what it returned
    pc,          \* "running", or "panicked" once a call has panicked
    lastFwd,     \* history: the last forward since the last successful setter,
                 \* whether a setter was rejected since, and whether that
                 \* forward repeated the input of the one before it across a
                 \* rejected setter
    trace,       \* history: what the last calculate did
    labels,      \* the class of each example, when one labelling is scored twice
    runs         \* history: what its sparse and its one-hot scoring did

vars == <<neurons, fan_in, weights, biases, activation, target, op, arg,
          result, pc, lastFwd, trace, labels, runs>>

lossVars == <<target, trace, labels, runs>>
layerVars == <<neurons, fan_in, weights, biases, lastFwd>>

----------------------------------------------------------------------------
(* Bounds of the model *)

MaxDim == 2
MaxRows == 1
MaxSeed == 1

Dims == 1..MaxDim
Seeds == 0..MaxSeed

----------------------------------------------------------------------------
(* Matrices (ndarray Array2) and vectors (Array1) *)

\* An r x c matrix is [nr, nc, d]: d[i][j] is the entry of row i, column j
NoMat == [nr |-> 0, nc |-> 0, d |-> <<>>]

\* Entries of the generated matrices and vectors: integers in -2..2
EntryVal(i, j, k) == ((3 * i + 5 * j + 7 * k) % 5) - 2

GenMat(r, c, k) ==
    [nr |-> r, nc |-> c,
     d |-> [i \in 1..r |-> [j \in 1..c |-> EntryVal(i, j, k)]]]

GenVec(n, k) == [i \in 1..n |-> EntryVal(i, 2, k)]

\* Array::zeros(n)
Zeros(n) == [i \in 1..n |-> 0]

RECURSIVE SumInts(_, _)
SumInts(f, n) == IF n = 0 THEN 0 ELSE SumInts(f, n - 1) + f[n]

RECURSIVE Pow2(_)
Pow2(n) == IF n = 0 THEN 1 ELSE 2 * Pow2(n - 1)

\* The bounds of a 15 bit mantissa
MantLo == Pow2(14)
MantHi == Pow2(15)

----------------------------------------------------------------------------
(* Floating point: [k, m, e] is m * 2^e when k = "num", k = "nan" and      *)
(* k = "inf" (+infinity) carry m = 0, e = 0.  Zero is m = 0, e = 0.  A     *)
(* number has 2^14 <= m < 2^15 and e >= MinExp, except at the bottom of    *)
(* f64's range, where e = MinExp and 0 < m < 2^14: a multiple of the least *)
(* subnormal, as in f64 (gradual underflow).  Only non-negative numbers    *)
(* occur: exp, sums of exp and their quotients.                            *)

\* f64: the least subnormal is 2^-1074, every result below 2^-1022 is a
\* multiple of it
MinExp == -1074
\* f64: a result of 2^1024 or more is +infinity
MaxExp == 1023
\* f64::exp(x) is 0.0 for every x <= -746 (e^-746 < 2^-1075)
ExpFlush == 746

FZero == [k |-> "num", m |-> 0, e |-> 0]
FNaN == [k |-> "nan", m |-> 0, e |-> 0]
FInf == [k |-> "inf", m |-> 0, e |-> 0]
FOne == [k |-> "num", m |-> MantLo, e |-> -14]

\* The number of bits of m > 0
RECURSIVE BitLen(_)
BitLen(m) == IF m = 0 THEN 0 ELSE 1 + BitLen(m \div 2)

\* The f64 result for the exact value m * 2^e: rounded once (to nearest, ties
\* to even) to 15 bits or, at the bottom of the range, to a multiple of
\* 2^-1074, which is 0 for a value of 2^-1075 or less; +infinity at 2^1024
\* and above
FNorm(m, e) ==
    IF m = 0 THEN FZero
    ELSE LET len == BitLen(m)
             s == IF len - 15 >= MinExp - e THEN len - 15 ELSE MinExp - e
         IN  IF e + len - 1 > MaxExp THEN FInf
             ELSE IF s <= 0
                  THEN [k |-> "num", m |-> m * Pow2(0 - s), e |-> e + s]
             ELSE IF s > len THEN FZero
             ELSE LET q == m \div Pow2(s)
                      rem == m % Pow2(s)
                      half == Pow2(s - 1)
                      up == rem > half \/ (rem = half /\ q % 2 = 1)
                      n == IF up THEN q + 1 ELSE q
                  IN  IF n = 0 THEN FZero
                      ELSE IF n = MantHi
                           THEN (IF e + s + 15 > MaxExp THEN FInf
                                 ELSE [k |-> "num", m |-> MantLo,
                                       e |-> e + s + 1])
                      ELSE [k |-> "num", m |-> n, e |-> e + s]

FAdd(a, b) ==
    IF a.k = "nan" \/ b.k = "nan" THEN FNaN
    ELSE IF a.k = "inf" \/ b.k = "inf" THEN FInf
    ELSE IF a.m = 0 THEN b
    ELSE IF b.m = 0 THEN a
    ELSE LET hi == IF a.e >= b.e THEN a ELSE b
             lo == IF a.e >= b.e THEN b ELSE a
             sh == hi.e - lo.e
         IN  IF sh > 15 THEN hi
             ELSE FNorm(hi.m * Pow2(sh) + lo.m, lo.e)

\* The quotient of the left-justified mantissas x / y to 18 bits and a sticky
\* bit for the remainder, rounded once
FDiv(a, b) ==
    IF a.k = "nan" \/ b.k = "nan" THEN FNaN
    ELSE IF a.k = "inf" THEN (IF b.k = "inf" THEN FNaN ELSE FInf)
    ELSE IF b.k = "inf" THEN FZero
    ELSE IF b.m = 0 THEN (IF a.m = 0 THEN FNaN ELSE FInf)
    ELSE IF a.m = 0 THEN FZero
    ELSE LET sa == 15 - BitLen(a.m)
             sb == 15 - BitLen(b.m)
             x == a.m * Pow2(sa)
             y == b.m * Pow2(sb)
             q == (x * MantHi) \div y
             r == (x * MantHi) % y
             guard == (r * 8) \div y
             sticky == IF (r * 8) % y = 0 THEN 0 ELSE 1
         IN  FNorm((q * 8 + guard) * 2 + sticky,
                   (a.e - sa) - (b.e - sb) - 19)

\* 2^(2^-i) for i = 1..22, in units of 2^-22
TwoRoot ==
    <<5931642, 4987896, 4573921, 4380002, 4286147, 4239977, 4217079,
      4205676, 4199986, 4197144, 4195724, 4195014, 4194659, 4194481,
      4194393, 4194348, 4194326, 4194315, 4194310, 4194307, 4194305,
      4194305>>

\* a * b for a, b in [1, 2) in units of 2^-22, by halves of 11 bits
Mul22(a, b) ==
    LET ah == a \div 2048
        al == a % 2048
        bh == b \div 2048
        bl == b % 2048
    IN  ah * bh + (ah * bl + al * bh + (al * bl) \div 2048 + 1024) \div 2048

\* acc * 2^(r / 10^9) for 0 <= r < 10^9, from the binary digits i..22 of
\* r / 10^9; acc in units of 2^-22
RECURSIVE Exp2Frac(_, _, _)
Exp2Frac(r, i, acc) ==
    IF i > 22 THEN acc
    ELSE IF 2 * r >= 1000000000
         THEN Exp2Frac(2 * r - 1000000000, i + 1, Mul22(acc, TwoRoot[i]))
         ELSE Exp2Frac(2 * r, i + 1, acc)

\* e^-n for 0 < n < ExpFlush.  With log2(e) = 1.442695041,
\* n * log2(e) = whole + fr / 10^9 and e^-n = 2^-q * 2^(r / 10^9) with
\* q = ceil(n * log2(e)), rounded once into f64's range.
ExpNeg(n) ==
    LET a == n * 442695
        nano == (a % 1000000) * 1000 + n * 41
        whole == n + a \div 1000000 + nano \div 1000000000
        fr == nano % 1000000000
        q == IF fr = 0 THEN whole ELSE whole + 1
        r == IF fr = 0 THEN 0 ELSE 1000000000 - fr
    IN  FNorm(Exp2Frac(r, 1, Pow2(22)), 0 - q - 22)

\* The values of exp that are not 0.0, by -d
ExpTable == [n \in 0..ExpFlush - 1 |-> IF n = 0 THEN FOne ELSE ExpNeg(n)]

\* f64::exp at an integer d <= 0
FExp(d) == IF 0 - d >= ExpFlush THEN FZero ELSE ExpTable[0 - d]

RECURSIVE FSum(_, _)
FSum(f, n) == IF n = 0 THEN FZero ELSE FAdd(FSum(f, n - 1), f[n])

\* 0 <= a <= 1
FInUnit(a) ==
    /\ a.k = "num"
    /\ \/ a.m = 0
       \/ a.e + 14 < 0
       \/ a = FOne

\* a in units of 2^-14, for a below 2
FToFix(a) ==
    IF a.m = 0 THEN 0
    ELSE IF a.e >= -14 THEN a.m * Pow2(a.e + 14)
    ELSE IF -14 - a.e > 15 THEN 0
    ELSE a.m \div Pow2(-14 - a.e)

----------------------------------------------------------------------------
(* Activations *)

Entries(a) == {a.d[i][j] : i \in 1..a.nr, j \in 1..a.nc}

\* inputs.mapv(|x| x.max(0.0))
Relu(inputs) ==
    [inputs EXCEPT !.d = [i \in 1..inputs.nr |-> [j \in 1..inputs.nc |->
        IF inputs.d[i][j] > 0 THEN inputs.d[i][j] ELSE 0]]]

\* The global maximum, exp(x - max), the sum of each row, the quotient
Softmax(inputs) ==
    IF Entries(inputs) = {} THEN inputs
    ELSE LET max == CHOOSE x \in Entries(inputs) :
                        \A y \in Entries(inputs) : y <= x
             exps == [i \in 1..inputs.nr |-> [j \in 1..inputs.nc |->
                         FExp(inputs.d[i][j] - max)]]
             sums == [i \in 1..inputs.nr |-> FSum(exps[i], inputs.nc)]
         IN  [inputs EXCEPT !.d = [i \in 1..inputs.nr |->
                 [j \in 1..inputs.nc |-> FDiv(exps[i][j], sums[i])]]]

\* ActivationFunction::forward, and the match of Layer::forward
Activate(act, inputs) ==
    IF act = "ReLU" THEN Relu(inputs) ELSE Softmax(inputs)

----------------------------------------------------------------------------
(* Layer *)

Panic == [st |-> "panic", v |-> NoMat]
NoFwd == [set |-> FALSE, inp |-> NoMat, out |-> NoMat, rejected |-> FALSE,
          repeat |-> FALSE]
NoTarget == [variant |-> "none", onehot |-> NoMat, sparse |-> <<>>]
NoTrace == [given |-> <<>>, entry |-> "none", payload |-> <<>>,
            conf |-> <<>>, losses |-> <<>>]
NoRun == [done |-> FALSE, conf |-> <<>>, losses |-> <<>>, mean |-> <<>>]
NoRuns == [sparse |-> NoRun, onehot |-> NoRun]

\* a.dot(&b): ndarray panics unless a's columns are b's rows
CanDot(a, b) == a.nc = b.nr

Dot(a, b) ==
    [nr |-> a.nr, nc |-> b.nc,
     d |-> [i \in 1..a.nr |-> [j \in 1..b.nc |->
        SumInts([k \in 1..a.nc |-> a.d[i][k] * b.d[k][j]], a.nc)]]]

\* m + &b, b a vector: ndarray broadcasts both to a common shape and panics
\* when there is none
CanAddVec(m, b) == Len(b) = m.nc \/ Len(b) = 1 \/ m.nc = 1

AddVec(m, b) ==
    LET c == IF m.nc = 1 THEN Len(b) ELSE m.nc
    IN  [nr |-> m.nr, nc |-> c,
         d |-> [i \in 1..m.nr |-> [j \in 1..c |->
            m.d[i][IF m.nc = 1 THEN 1 ELSE j]
            + b[IF Len(b) = 1 THEN 1 ELSE j]]]]

\* Layer::forward: its value, or a panic of the product or of the sum
Forward(w, b, act, inputs) ==
    IF ~CanDot(inputs, w) THEN Panic
    ELSE IF ~CanAddVec(Dot(inputs, w), b) THEN Panic
    ELSE [st |-> "val", v |-> Activate(act, AddVec(Dot(inputs, w), b))]

\* Layer::set_weights: the two dimension checks
SetWeightsOk(new) == new.nr = neurons /\ new.nc = fan_in

\* Layer::set_biases: the dimension check
SetBiasesOk(new) == Len(new) = neurons

\* Mutant: set_weights stores the matrix before it validates it
WeightsAfterSetUnchecked(new) == new

\* self.weights after set_weights(new)
WeightsAfterSet(new) == IF SetWeightsOk(new) THEN new ELSE weights

\* Mutant: set_biases stores the vector before it validates it
BiasesAfterSetUnchecked(new) == new

\* self.biases after set_biases(new)
BiasesAfterSet(new) == IF SetBiasesOk(new) THEN new ELSE biases

\* Layer::<NEURONS, FAN_IN>::new(activation), the random weights one of the
\* generated FAN_IN x NEURONS matrices
LayerInit ==
    /\ neurons \in Dims
    /\ fan_in \in Dims
    /\ activation \in {"ReLU", "Softmax"}
    /\ \E k \in Seeds : weights = GenMat(fan_in, neurons, k)
    /\ biases = Zeros(neurons)
    /\ target = NoTarget
    /\ op = "new"
    /\ arg = NoMat
    /\ result = [st |-> "none", v |-> NoMat]
    /\ pc = "running"
    /\ lastFwd = NoFwd
    /\ trace = NoTrace
    /\ labels = <<>>
    /\ runs = NoRuns

set_weights(new) ==
    /\ pc = "running"
    /\ weights' = WeightsAfterSet(new)
    /\ result' = [st |-> IF SetWeightsOk(new) THEN "ok" ELSE "err", v |-> NoMat]
    /\ lastFwd' = IF SetWeightsOk(new) THEN NoFwd
                  ELSE [lastFwd EXCEPT !.rejected = TRUE]
    /\ op' = "set_weights"
    /\ arg' = new
    /\ UNCHANGED <<neurons, fan_in, biases, activation, pc, lossVars>>

set_biases(new) ==
    /\ pc = "running"
    /\ biases' = BiasesAfterSet(new)
    /\ result' = [st |-> IF SetBiasesOk(new) THEN "ok" ELSE "err", v |-> NoMat]
    /\ lastFwd' = IF SetBiasesOk(new) THEN NoFwd
                  ELSE [lastFwd EXCEPT !.rejected = TRUE]
    /\ op' = "set_biases"
    /\ arg' = new
    /\ UNCHANGED <<neurons, fan_in, weights, activation, pc, lossVars>>

forward(inputs) ==
    /\ pc = "running"
    /\ result' = Forward(weights, biases, activation, inputs)
    /\ pc' = IF result'.st = "panic" THEN "panicked" ELSE "running"
    /\ lastFwd' = IF result'.st = "panic" THEN lastFwd
                  ELSE [set |-> TRUE, inp |-> inputs, out |-> result'.v,
                        rejected |-> FALSE,
                        repeat |-> /\ lastFwd.set
                                   /\ lastFwd.inp = inputs
                                   /\ lastFwd.rejected]
    /\ op' = "forward"
    /\ arg' = inputs
    /\ UNCHANGED <<neurons, fan_in, weights, biases, activation, lossVars>>

\* The arguments tried: every shape up to MaxDim (rows of an input up to
\* MaxRows), each with the generated entries
WeightArgs == {GenMat(r, c, k) : r \in Dims, c \in Dims, k \in Seeds}
BiasArgs == {GenVec(n, k) : n \in Dims, k \in Seeds}
InputArgs == {GenMat(r, c, k) : r \in 0..MaxRows, c \in Dims, k \in Seeds}

LayerNext ==
    \/ \E new \in WeightArgs : set_weights(new)
    \/ \E new \in BiasArgs : set_biases(new)
    \/ \E inputs \in InputArgs : forward(inputs)

SpecLayer == LayerInit /\ [][LayerNext]_vars

----------------------------------------------------------------------------
(* Layer: the claims *)

\* C1: the stored weight matrix is always FAN_IN rows by NEURONS columns and
\* the stored bias vector always has NEURONS entries, whatever new,
\* set_weights, set_biases and forward calls were made.
C1_ShapeInvariant ==
    /\ weights.nr = fan_in
    /\ weights.nc = neurons
    /\ Len(biases) = neurons

\* C2: set_weights with a row count other than NEURONS or a column count
\* other than FAN_IN, and set_biases with a length other than NEURONS, return
\* the IncorrectDimension error and leave weights and biases as they were.
C2_RejectionKeepsState ==
    [][ ( \/ op' = "set_weights" /\ (arg'.nr # neurons \/ arg'.nc # fan_in)
          \/ op' = "set_biases" /\ Len(arg') # neurons )
        => (result'.st = "err" /\ weights' = weights /\ biases' = biases) ]_vars

\* C2 witness: a set_weights with the right row count and the wrong column
\* count was rejected after an earlier set_weights had succeeded.
C2_Witness ==
    /\ op = "set_weights"
    /\ arg.nr = neurons
    /\ arg.nc # fan_in
    /\ result.st = "err"
    /\ weights \notin {GenMat(fan_in, neurons, k) : k \in Seeds}

\* C3: set_weights with a NEURONS x FAN_IN matrix and set_biases with a
\* NEURONS vector succeed, and forward on an R x FAN_IN input completes and
\* returns an R x NEURONS matrix.
C3_SetThenForward ==
    /\ (op = "set_weights" /\ arg.nr = neurons /\ arg.nc = fan_in)
           => result.st = "ok"
    /\ (op = "set_biases" /\ Len(arg) = neurons) => result.st = "ok"
    /\ (op = "forward" /\ arg.nc = fan_in)
           => /\ result.st = "val"
              /\ result.v.nr = arg.nr
              /\ result.v.nc = neurons

\* C10: forward leaves weights, biases and activation as they are, and
\* returns what the last forward on the same input returned when no setter
\* has succeeded since (failed setters in between change nothing).
C10_ForwardPure ==
    [][ (op' = "forward" /\ pc' = "running")
        => /\ weights' = weights
           /\ biases' = biases
           /\ activation' = activation
           /\ (lastFwd.set /\ lastFwd.inp = arg') => result'.v = lastFwd.out
      ]_vars

\* C10 witness: a forward repeated an earlier forward's input, with a
\* rejected setter call between the two.
C10_Witness ==
    /\ op = "forward"
    /\ pc = "running"
    /\ arg.nr > 0
    /\ lastFwd.repeat
    /\ lastFwd.inp = arg
    /\ lastFwd.out = result.v

----------------------------------------------------------------------------
(* ActivationFunction on its own *)

SoftRows == 2
SoftCols == 2
\* Input entries: near each other, far from each other, and at the distances
\* 744, 745 and 746 where exp reaches the bottom of f64's range
SoftVals == {-1000, -745, -744, 0, 1}

\* ActivationFunction::new(activation)
ActivationInit ==
    /\ activation \in {"ReLU", "Softmax"}
    /\ neurons = 0
    /\ fan_in = 0
    /\ weights = NoMat
    /\ biases = <<>>
    /\ target = NoTarget
    /\ op = "new"
    /\ arg = NoMat
    /\ result = [st |-> "none", v |-> NoMat]
    /\ pc = "running"
    /\ lastFwd = NoFwd
    /\ trace = NoTrace
    /\ labels = <<>>
    /\ runs = NoRuns

\* ActivationFunction::forward(inputs)
act_forward(inputs) ==
    /\ result' = [st |-> "val", v |-> Activate(activation, inputs)]
    /\ op' = "act_forward"
    /\ arg' = inputs
    /\ UNCHANGED <<layerVars, activation, pc, lossVars>>

ActivationNext ==
    \E r \in 1..SoftRows, c \in 1..SoftCols :
        \E d \in [1..r -> [1..c -> SoftVals]] :
            act_forward([nr |-> r, nc |-> c, d |-> d])

SpecActivation == ActivationInit /\ [][ActivationNext]_vars

\* The sum of a row lies within 2^-10 of 1 (the model's mantissa has 15 bits)
RowSumsToOne(m, i) ==
    LET s == FSum(m.d[i], m.nc)
    IN  /\ s.k = "num"
        /\ FToFix(s) >= MantLo - 16
        /\ FToFix(s) <= MantLo + 16

\* C9: Softmax forward of a finite matrix returns a matrix of the same shape
\* whose elements lie in [0, 1] and whose rows each sum to 1.
C9_SoftmaxDistribution ==
    (op = "act_forward" /\ activation = "Softmax")
        => /\ result.v.nr = arg.nr
           /\ result.v.nc = arg.nc
           /\ \A i \in 1..arg.nr :
                /\ \A j \in 1..arg.nc : FInUnit(result.v.d[i][j])
                /\ RowSumsToOne(result.v, i)

----------------------------------------------------------------------------
(* CrossEntropy.  A prediction and a confidence are [k, v]: v units of     *)
(* 1e-7 when k = "num", NaN when k = "nan", +-infinity when k = "inf" or   *)
(* "-inf".  A loss is [k, v]: v units of 1e-3, NaN or +infinity.  The      *)
(* entries of a one-hot target are the integers 0 and 1.                   *)

Unit == 10000000
ClipLo == 1
ClipHi == 9999999

Num(v) == [k |-> "num", v |-> v]
NaN == [k |-> "nan", v |-> 0]
PosInf == [k |-> "inf", v |-> 0]
NegInf == [k |-> "-inf", v |-> 0]

\* val.clamp(1E-7, 1. - 1E-7): a NaN stays a NaN
Clamp(val) ==
    IF val.k = "nan" THEN NaN
    ELSE IF val.k = "inf" THEN Num(ClipHi)
    ELSE IF val.k = "-inf" THEN Num(ClipLo)
    ELSE IF val.v < ClipLo THEN Num(ClipLo)
    ELSE IF val.v > ClipHi THEN Num(ClipHi)
    ELSE val

\* Mutant: no clipping
ClipValuesNot(values) == values

\* CrossEntropy::clip_values
ClipValues(values) ==
    [values EXCEPT !.d = [i \in 1..values.nr |-> [j \in 1..values.nc |->
        Clamp(values.d[i][j])]]]

Min(a, b) == IF a <= b THEN a ELSE b

\* Mutant: the first column of each row, whatever its class
DetermineCorrectConfidencesSparseFirst(outputs, target_output_set) ==
    IF \E i \in 1..Min(outputs.nr, Len(target_output_set)) : outputs.nc < 1
    THEN [st |-> "panic", v |-> <<>>]
    ELSE [st |-> "val",
          v |-> [i \in 1..Min(outputs.nr, Len(target_output_set)) |->
                    outputs.d[i][1]]]

\* CrossEntropy::determine_correct_confidences_sparse: rows zipped with
\* targets, output[target_class] of each pair; the index panics out of range
DetermineCorrectConfidencesSparse(outputs, target_output_set) ==
    IF \E i \in 1..Min(outputs.nr, Len(target_output_set)) :
           target_output_set[i] >= outputs.nc
    THEN [st |-> "panic", v |-> <<>>]
    ELSE [st |-> "val",
          v |-> [i \in 1..Min(outputs.nr, Len(target_output_set)) |->
                    outputs.d[i][target_output_set[i] + 1]]]

\* The length two arrays' axes broadcast to (ndarray: equal, or one is 1)
CanBroadcast(a, b) == a = b \/ a = 1 \/ b = 1
BroadcastLen(a, b) == IF a = 1 THEN b ELSE a

\* x * t for a clipped prediction x and a target entry t
Times(x, t) == IF x.k = "nan" THEN NaN ELSE Num(x.v * t)

Plus(x, y) == IF x.k = "nan" \/ y.k = "nan" THEN NaN ELSE Num(x.v + y.v)

RECURSIVE SumNums(_, _)
SumNums(f, n) == IF n = 0 THEN Num(0) ELSE Plus(SumNums(f, n - 1), f[n])

\* CrossEntropy::determine_correct_confidences_one_hot:
\* (outputs * target_output_set).sum_axis(Axis(1)); the product panics when
\* the shapes do not broadcast
DetermineCorrectConfidencesOneHot(outputs, target_output_set) ==
    IF ~(/\ CanBroadcast(outputs.nr, target_output_set.nr)
         /\ CanBroadcast(outputs.nc, target_output_set.nc))
    THEN [st |-> "panic", v |-> <<>>]
    ELSE LET r == BroadcastLen(outputs.nr, target_output_set.nr)
             c == BroadcastLen(outputs.nc, target_output_set.nc)
             oi(i) == IF outputs.nr = 1 THEN 1 ELSE i
             oj(j) == IF outputs.nc = 1 THEN 1 ELSE j
             ti(i) == IF target_output_set.nr = 1 THEN 1 ELSE i
             tj(j) == IF target_output_set.nc = 1 THEN 1 ELSE j
         IN  [st |-> "val",
              v |-> [i \in 1..r |->
                 SumNums([j \in 1..c |->
                     Times(outputs.d[oi(i)][oj(j)],
                           target_output_set.d[ti(i)][tj(j)])], c)]]

RECURSIVE Log2Floor(_)
Log2Floor(c) == IF c < 2 THEN 0 ELSE 1 + Log2Floor(c \div 2)

\* n more bits of log2 of x / 2^14, x in [2^14, 2^15), after the bits acc
RECURSIVE Log2Frac(_, _, _)
Log2Frac(x, n, acc) ==
    IF n = 0 THEN acc
    ELSE LET y == (x * x) \div MantLo
         IN  IF y >= MantHi THEN Log2Frac(y \div 2, n - 1, 2 * acc + 1)
             ELSE Log2Frac(y, n - 1, 2 * acc)

\* 1000 * ln(c) for an integer c >= 1, from log2(c) to 10 binary places
LnMilli(c) ==
    LET k == Log2Floor(c)
        x == IF k <= 14 THEN c * Pow2(14 - k) ELSE c \div Pow2(k - 14)
    IN  ((k * 1024 + Log2Frac(x, 10, 0)) * 69315) \div 102400

\* -1.0 * confidence.ln()
NegLn(confidence) ==
    IF confidence.k = "nan" THEN NaN
    ELSE IF confidence.v < 0 THEN NaN
    ELSE IF confidence.v = 0 THEN PosInf
    ELSE Num(LnMilli(Unit) - LnMilli(confidence.v))

\* CrossEntropy::cross_entropy
CrossEntropy(confidences) ==
    [i \in 1..Len(confidences) |-> NegLn(confidences[i])]

\* CrossEntropy::forward_sparse, with the confidences it went through
ForwardSparse(outputs, target_outputs) ==
    LET c == DetermineCorrectConfidencesSparse(ClipValues(outputs),
                                               target_outputs)
    IN  IF c.st = "panic" THEN [st |-> "panic", conf |-> <<>>, v |-> <<>>]
        ELSE [st |-> "val", conf |-> c.v, v |-> CrossEntropy(c.v)]

\* CrossEntropy::forward_onehot, with the confidences it went through
ForwardOnehot(outputs, target_outputs) ==
    LET c == DetermineCorrectConfidencesOneHot(ClipValues(outputs),
                                               target_outputs)
    IN  IF c.st = "panic" THEN [st |-> "panic", conf |-> <<>>, v |-> <<>>]
        ELSE [st |-> "val", conf |-> c.v, v |-> CrossEntropy(c.v)]

\* Adding losses: NaN wins, then +infinity
PlusLoss(x, y) ==
    IF x.k = "nan" \/ y.k = "nan" THEN NaN
    ELSE IF x.k = "inf" \/ y.k = "inf" THEN PosInf
    ELSE Num(x.v + y.v)

RECURSIVE SumLosses(_, _)
SumLosses(f, n) == IF n = 0 THEN Num(0) ELSE PlusLoss(SumLosses(f, n - 1), f[n])

\* Array1::mean().unwrap_or(0.0): the sum over the length, 0.0 when empty
MeanOrZero(losses) ==
    LET s == SumLosses(losses, Len(losses))
    IN  IF Len(losses) = 0 THEN Num(0)
        ELSE IF s.k = "num" THEN Num(s.v \div Len(losses)) ELSE s

----------------------------------------------------------------------------
(* LossTargetData and LossFunction.  A target value is [variant, onehot,   *)
(* sparse]: variant names the struct (OneHotLossTargetData or              *)
(* SparseLossTargetData) and the field of that name holds its data.        *)

LossRows == 3
LossCols == 2
MaxPredSeed == 3
MaxLabelSeed == 2

OneHotData(data) == [variant |-> "OneHot", onehot |-> data, sparse |-> <<>>]
SparseData(data) == [variant |-> "Sparse", onehot |-> NoMat, sparse |-> data]

\* <T as LossTargetData>::new_onehot(data): the value, or a panic
NewOnehot(T, data) ==
    IF T = "OneHot" THEN [st |-> "val", v |-> OneHotData(data)]
    ELSE [st |-> "panic", v |-> NoTarget]

\* <T as LossTargetData>::new_sparse(data): the value, or a panic
NewSparse(T, data) ==
    IF T = "Sparse" THEN [st |-> "val", v |-> SparseData(data)]
    ELSE [st |-> "panic", v |-> NoTarget]

\* Mutant: both variants report Sparse
EncodingAlwaysSparse(t) == "Sparse"

\* LossTargetData::encoding
Encoding(t) == IF t.variant = "OneHot" THEN "OneHot" ELSE "Sparse"

\* Mutant: the sparse variant returns an empty matrix instead of panicking
GetOnehotNoPanic(t) == [st |-> "val", v |-> t.onehot]

\* LossTargetData::get_onehot
GetOnehot(t) ==
    IF t.variant = "OneHot" THEN [st |-> "val", v |-> t.onehot]
    ELSE [st |-> "panic", v |-> NoMat]

\* LossTargetData::get_sparse
GetSparse(t) ==
    IF t.variant = "Sparse" THEN [st |-> "val", v |-> t.sparse]
    ELSE [st |-> "panic", v |-> <<>>]

\* LossFunction::calculate(outputs, t): the entry point taken, the payload
\* handed to it, the confidences and losses it produced, and the mean
Calculate(outputs, t) ==
    IF Encoding(t) = "OneHot"
    THEN LET p == GetOnehot(t)
             f == IF p.st = "panic" THEN [st |-> "panic"]
                  ELSE ForwardOnehot(outputs, p.v)
         IN  IF f.st = "panic"
             THEN [st |-> "panic", entry |-> "forward_onehot", payload |-> p.v,
                   conf |-> <<>>, losses |-> <<>>, mean |-> NaN]
             ELSE [st |-> "val", entry |-> "forward_onehot", payload |-> p.v,
                   conf |-> f.conf, losses |-> f.v, mean |-> MeanOrZero(f.v)]
    ELSE LET p == GetSparse(t)
             f == IF p.st = "panic" THEN [st |-> "panic"]
                  ELSE ForwardSparse(outputs, p.v)
         IN  IF f.st = "panic"
             THEN [st |-> "panic", entry |-> "forward_sparse", payload |-> p.v,
                   conf |-> <<>>, losses |-> <<>>, mean |-> NaN]
             ELSE [st |-> "val", entry |-> "forward_sparse", payload |-> p.v,
                   conf |-> f.conf, losses |-> f.v, mean |-> MeanOrZero(f.v)]

\* The arguments tried.  Predictions: 0, 0.3, 0.7 and 1.2 in turn, and a NaN
\* in the first entry of the matrices of seed 0
PredNums == <<Num(0), Num(3000000), Num(7000000), Num(12000000)>>

GenPred(r, c, k) ==
    [nr |-> r, nc |-> c,
     d |-> [i \in 1..r |-> [j \in 1..c |->
        IF k = 0 /\ i = 1 /\ j = 1 THEN NaN
        ELSE PredNums[((2 * i + j + k) % 4) + 1]]]]

PredArgs ==
    {GenPred(r, c, k) : r \in 0..LossRows, c \in 1..LossCols,
                        k \in 0..MaxPredSeed}

\* The class of each of n examples, among c classes
GenLabels(n, c, k) == [i \in 1..n |-> (i + k) % c]

\* The one-hot rows of a labelling
OneHotOf(l, c) ==
    [nr |-> Len(l), nc |-> c,
     d |-> [i \in 1..Len(l) |-> [j \in 1..c |-> IF l[i] = j - 1 THEN 1 ELSE 0]]]

Constant(r, c, x) ==
    [nr |-> r, nc |-> c, d |-> [i \in 1..r |-> [j \in 1..c |-> x]]]

\* One-hot targets: well formed ones, all-zero rows, rows of ones
OneHotArgs ==
    {OneHotOf(GenLabels(r, c, k), c) :
        r \in 0..LossRows, c \in 1..LossCols, k \in 0..MaxLabelSeed}
    \cup {Constant(r, c, x) : r \in 1..LossRows, c \in 1..LossCols, x \in {0, 1}}

\* Sparse targets: class indices up to LossCols, which no prediction has
SparseArgs ==
    {GenLabels(n, c, k) :
        n \in 0..LossRows, c \in 1..LossCols + 1, k \in 0..MaxLabelSeed}

Variants == {"OneHot", "Sparse"}

\* LossFunction::new(LossFunctionType::CrossEntropy), no target data yet
LossInit ==
    /\ neurons = 0
    /\ fan_in = 0
    /\ weights = NoMat
    /\ biases = <<>>
    /\ activation = "none"
    /\ target = NoTarget
    /\ op = "new"
    /\ arg = NoMat
    /\ result = [st |-> "none", v |-> NoMat]
    /\ pc = "running"
    /\ lastFwd = NoFwd
    /\ trace = NoTrace
    /\ labels = <<>>
    /\ runs = NoRuns

new_onehot(T, data) ==
    /\ pc = "running"
    /\ LET r == NewOnehot(T, data)
       IN  /\ pc' = IF r.st = "panic" THEN "panicked" ELSE "running"
           /\ target' = IF r.st = "panic" THEN target ELSE r.v
           /\ result' = [st |-> r.st, v |-> NoMat]
           /\ trace' = IF r.st = "panic" THEN trace
                       ELSE [NoTrace EXCEPT !.given = data]
    /\ op' = "new_onehot"
    /\ arg' = [T |-> T, data |-> data]
    /\ UNCHANGED <<layerVars, activation, labels, runs>>

new_sparse(T, data) ==
    /\ pc = "running"
    /\ LET r == NewSparse(T, data)
       IN  /\ pc' = IF r.st = "panic" THEN "panicked" ELSE "running"
           /\ target' = IF r.st = "panic" THEN target ELSE r.v
           /\ result' = [st |-> r.st, v |-> NoMat]
           /\ trace' = IF r.st = "panic" THEN trace
                       ELSE [NoTrace EXCEPT !.given = data]
    /\ op' = "new_sparse"
    /\ arg' = [T |-> T, data |-> data]
    /\ UNCHANGED <<layerVars, activation, labels, runs>>

encoding ==
    /\ pc = "running"
    /\ target.variant # "none"
    /\ result' = [st |-> "val", v |-> Encoding(target)]
    /\ op' = "encoding"
    /\ arg' = NoMat
    /\ UNCHANGED <<layerVars, activation, pc, lossVars>>

get_onehot ==
    /\ pc = "running"
    /\ target.variant # "none"
    /\ result' = GetOnehot(target)
    /\ pc' = IF result'.st = "panic" THEN "panicked" ELSE "running"
    /\ op' = "get_onehot"
    /\ arg' = NoMat
    /\ UNCHANGED <<layerVars, activation, lossVars>>

get_sparse ==
    /\ pc = "running"
    /\ target.variant # "none"
    /\ result' = GetSparse(target)
    /\ pc' = IF result'.st = "panic" THEN "panicked" ELSE "running"
    /\ op' = "get_sparse"
    /\ arg' = NoMat
    /\ UNCHANGED <<layerVars, activation, lossVars>>

calculate(outputs) ==
    /\ pc = "running"
    /\ target.variant # "none"
    /\ LET r == Calculate(outputs, target)
       IN  /\ pc' = IF r.st = "panic" THEN "panicked" ELSE "running"
           /\ result' = [st |-> r.st, v |-> r.mean]
           /\ trace' = [given |-> trace.given, entry |-> r.entry,
                        payload |-> r.payload, conf |-> r.conf,
                        losses |-> r.losses]
    /\ op' = "calculate"
    /\ arg' = outputs
    /\ UNCHANGED <<layerVars, activation, target, labels, runs>>

LossNext ==
    \/ \E T \in Variants, data \in OneHotArgs : new_onehot(T, data)
    \/ \E T \in Variants, data \in SparseArgs : new_sparse(T, data)
    \/ encoding
    \/ get_onehot
    \/ get_sparse
    \/ \E outputs \in PredArgs : calculate(outputs)

SpecLoss == LossInit /\ [][LossNext]_vars

----------------------------------------------------------------------------
(* One labelling scored in both encodings *)

\* Predictions for as many examples as there are labels, each label a class
\* of the predictions
EquivInit ==
    /\ neurons = 0
    /\ fan_in = 0
    /\ weights = NoMat
    /\ biases = <<>>
    /\ activation = "none"
    /\ target = NoTarget
    /\ op = "new"
    /\ arg \in PredArgs
    /\ \E k \in 0..MaxLabelSeed : labels = GenLabels(arg.nr, arg.nc, k)
    /\ result = [st |-> "none", v |-> NoMat]
    /\ pc = "running"
    /\ lastFwd = NoFwd
    /\ trace = NoTrace
    /\ runs = NoRuns

\* SparseLossTargetData::new_sparse(labels), then calculate
score_sparse ==
    /\ pc = "running"
    /\ ~runs.sparse.done
    /\ LET t == NewSparse("Sparse", labels).v
           r == Calculate(arg, t)
       IN  /\ target' = t
           /\ pc' = IF r.st = "panic" THEN "panicked" ELSE "running"
           /\ result' = [st |-> r.st, v |-> r.mean]
           /\ runs' = [runs EXCEPT !.sparse =
                          [done |-> r.st = "val", conf |-> r.conf,
                           losses |-> r.losses, mean |-> r.mean]]
    /\ op' = "calculate"
    /\ UNCHANGED <<layerVars, activation, arg, trace, labels>>

\* OneHotLossTargetData::new_onehot(the one-hot rows of labels), then calculate
score_onehot ==
    /\ pc = "running"
    /\ ~runs.onehot.done
    /\ LET t == NewOnehot("OneHot", OneHotOf(labels, arg.nc)).v
           r == Calculate(arg, t)
       IN  /\ target' = t
           /\ pc' = IF r.st = "panic" THEN "panicked" ELSE "running"
           /\ result' = [st |-> r.st, v |-> r.mean]
           /\ runs' = [runs EXCEPT !.onehot =
                          [done |-> r.st = "val", conf |-> r.conf,
                           losses |-> r.losses, mean |-> r.mean]]
    /\ op' = "calculate"
    /\ UNCHANGED <<layerVars, activation, arg, trace, labels>>

EquivNext == score_sparse \/ score_onehot

SpecEquiv == EquivInit /\ [][EquivNext]_vars

----------------------------------------------------------------------------
(* The loss: the claims *)

\* r is the arithmetic mean of the losses, or 0 when there are none
IsMeanOrZero(r, losses) ==
    LET n == Len(losses)
        total == SumInts([i \in 1..n |-> losses[i].v], n)
    IN  IF n = 0 THEN r = Num(0)
        ELSE IF \E i \in 1..n : losses[i].k = "nan" THEN r.k = "nan"
        ELSE IF \E i \in 1..n : losses[i].k = "inf" THEN r.k = "inf"
        ELSE /\ r.k = "num"
             /\ r.v * n <= total
             /\ total < (r.v + 1) * n

\* C4: calculate calls forward_onehot with the one-hot payload when the tag
\* is OneHot and forward_sparse with the sparse payload when it is Sparse,
\* and returns the mean of the per-example losses, 0.0 when there are none.
C4_DispatchAndMean ==
    op = "calculate"
        => /\ target.variant = "OneHot"
                => (trace.entry = "forward_onehot"
                    /\ trace.payload = target.onehot)
           /\ target.variant = "Sparse"
                => (trace.entry = "forward_sparse"
                    /\ trace.payload = target.sparse)
           /\ pc = "running"
                => (result.st = "val" /\ IsMeanOrZero(result.v, trace.losses))

\* C4 witness: calculate returned 0.0 for an empty batch of one-hot targets.
C4_Witness ==
    /\ op = "calculate"
    /\ pc = "running"
    /\ target.variant = "OneHot"
    /\ trace.entry = "forward_onehot"
    /\ arg.nr = 0
    /\ trace.losses = <<>>
    /\ result.v = Num(0)

NaNFree(m) == \A i \in 1..m.nr, j \in 1..m.nc : m.d[i][j].k # "nan"

\* C5 as claimed: for every prediction matrix, the sparse and the one-hot
\* encoding of one labelling give the same confidences, the same losses and
\* the same mean loss.
C5_Original ==
    (runs.sparse.done /\ runs.onehot.done)
        => /\ runs.sparse.conf = runs.onehot.conf
           /\ runs.sparse.losses = runs.onehot.losses
           /\ runs.sparse.mean = runs.onehot.mean

\* C5: for every prediction matrix without a NaN, the sparse and the one-hot
\* encoding of one labelling give the same confidences (the clipped
\* prediction at the true class of each row), the same losses and the same
\* mean loss.
C5_EncodingEquivalence ==
    (runs.sparse.done /\ runs.onehot.done /\ NaNFree(arg))
        => /\ runs.sparse.conf = runs.onehot.conf
           /\ runs.sparse.losses = runs.onehot.losses
           /\ runs.sparse.mean = runs.onehot.mean
           /\ \A i \in 1..arg.nr :
                runs.onehot.conf[i] = Clamp(arg.d[i][labels[i] + 1])

\* C5 witness: both encodings were scored on NaN-free predictions of two
\* examples of different classes.
C5_Witness ==
    /\ runs.sparse.done
    /\ runs.onehot.done
    /\ NaNFree(arg)
    /\ arg.nr >= 2
    /\ labels[1] # labels[2]
    /\ runs.sparse.mean.v > 0

TargetRows(t) == IF t.variant = "OneHot" THEN t.onehot.nr ELSE Len(t.sparse)

\* The target fits the predictions but for its number of rows
TargetFitsColumns(t, outputs) ==
    IF t.variant = "OneHot" THEN t.onehot.nc = outputs.nc
    ELSE \A i \in 1..Len(t.sparse) : t.sparse[i] < outputs.nc

\* C6: when predictions and targets differ in their number of rows, neither
\* encoding crashes: the examples are paired with the targets in order, the
\* pairing stops at the shorter of the two, and a loss is returned.
C6_MismatchTruncates ==
    (/\ op = "calculate"
     /\ TargetRows(target) # arg.nr
     /\ TargetFitsColumns(target, arg))
        => /\ pc = "running"
           /\ result.st = "val"
           /\ Len(trace.losses) = Min(arg.nr, TargetRows(target))

FiniteNonNegative(loss) == loss.k = "num" /\ loss.v >= 0

InUnitInterval(confidence) ==
    confidence.k = "num" /\ confidence.v > 0 /\ confidence.v <= Unit

\* C7 as claimed: for every prediction matrix and every target, malformed
\* one-hot rows included, every per-example loss is finite and non-negative
\* and every confidence lies in (0, 1].
C7_Original ==
    (op = "calculate" /\ pc = "running")
        => \A i \in 1..Len(trace.losses) :
              /\ FiniteNonNegative(trace.losses[i])
              /\ InUnitInterval(trace.conf[i])

\* Every row of a one-hot target holds one 1 and otherwise 0, and it has the
\* columns of the predictions
WellFormed(t, outputs) ==
    t.variant = "OneHot"
        => /\ t.onehot.nc = outputs.nc
           /\ \A i \in 1..t.onehot.nr :
                /\ Cardinality({j \in 1..t.onehot.nc : t.onehot.d[i][j] = 1}) = 1
                /\ \A j \in 1..t.onehot.nc : t.onehot.d[i][j] \in {0, 1}

\* C7: for every prediction matrix without a NaN and every target that is
\* sparse, or one-hot with the columns of the predictions and exactly one 1
\* (otherwise 0) in each row, every per-example loss that forward_sparse or
\* forward_onehot returns is finite and non-negative: every confidence fed
\* to -ln lies in (0, 1].
C7_FiniteNonNegative ==
    (op = "calculate" /\ pc = "running" /\ NaNFree(arg)
     /\ WellFormed(target, arg))
        => \A i \in 1..Len(trace.losses) :
              /\ FiniteNonNegative(trace.losses[i])
              /\ InUnitInterval(trace.conf[i])

\* C7 witness: a well-formed one-hot target scored predictions that needed
\* clipping at both ends (a 0 and a 1.2 at true classes).
C7_Witness ==
    /\ op = "calculate"
    /\ pc = "running"
    /\ NaNFree(arg)
    /\ target.variant = "OneHot"
    /\ WellFormed(target, arg)
    /\ \E i \in 1..Len(trace.conf) : trace.conf[i] = Num(ClipLo)
    /\ \E i \in 1..Len(trace.conf) : trace.conf[i] = Num(ClipHi)

\* C8: each variant reports its own tag; the accessor of its own shape
\* returns the data its own constructor was given; the other accessor and
\* the other constructor panic.
C8_TargetData ==
    /\ op = "encoding" => result.v = target.variant
    /\ op = "new_onehot"
         => IF arg.T = "OneHot"
            THEN pc = "running" /\ target = OneHotData(arg.data)
            ELSE pc = "panicked"
    /\ op = "new_sparse"
         => IF arg.T = "Sparse"
            THEN pc = "running" /\ target = SparseData(arg.data)
            ELSE pc = "panicked"
    /\ op = "get_onehot"
         => IF target.variant = "OneHot"
            THEN pc = "running" /\ result.st = "val" /\ result.v = trace.given
            ELSE pc = "panicked"
    /\ op = "get_sparse"
         => IF target.variant = "Sparse"
            THEN pc = "running" /\ result.st = "val" /\ result.v = trace.given
            ELSE pc = "panicked"

\* C8 witness: a sparse target of two examples gave its data back.
C8_Witness ==
    /\ op = "get_sparse"
    /\ pc = "running"
    /\ target.variant = "Sparse"
    /\ Len(trace.given) = 2
    /\ result.v = trace.given

====
